---------------------------- MODULE Spec2Model ----------------------------
(***************************************************************************)
(* A model of the helper logic of the funda.nl end-to-end suite:           *)
(*   - the session snapshot check      (utils/helpers.js isStateFileValid) *)
(*   - the fixture lookups             (utils/commands.js getTestData,     *)
(*                                      getCredentials)                    *)
(*   - the request log of the network-mock harness (NetworkMockPage.js)    *)
(*   - the challenge handler           (BasePage.js handlePossibleCaptcha) *)
(*   - the login-state detector and the login orchestration                *)
(*                                     (BasePage.js isLoggedIn,            *)
(*                                      LoginPage.login, commands.login,   *)
(*                                      utils/ensureLoggedIn.js)           *)
(* JavaScript values are modelled with their type tag, so that the value   *)
(* `undefined` and the boolean `false` stay different, and strings are     *)
(* sequences of characters (or of URL tokens), so that `includes` is a     *)
(* real substring search.                                                  *)
(***************************************************************************)
EXTENDS Integers, Sequences, FiniteSets, TLC

VARIABLES
    stateFile,        \* content of data/state.json on disk
    contextCookies,   \* cookies held by the browser context
    validCall,        \* last isStateFileValid call: the file it saw and its result
    interceptedUrls,      \* NetworkMockPage.interceptedUrls
    interceptedRequests,  \* NetworkMockPage.interceptedRequests
    isMonitoringRequests, \* NetworkMockPage.isMonitoringRequests
    routes,               \* route handlers registered on the page, oldest first
    lastOp,               \* last harness operation: its argument and its result
    requested,            \* the requests the page has made, each with what handled it
    pending,              \* harness calls made without await: kind and position of each
    url,              \* page.url(), a sequence of URL tokens
    page,             \* what the page shows: the challenge markers and the login form
    headlessEnv,      \* process.env.HEADLESS
    baseUrl,          \* this.baseUrl of the page object running the handler
    hpc,              \* position of handlePossibleCaptcha
    hpcOpts,          \* its returnPath and useMainSite, defaults applied
    timeElapsed,      \* its local timeElapsed
    pollWaits,        \* number of checkInterval waits it has completed
    hpcError,         \* the error it raised
    hpcNav,           \* the address of the re-navigation it issued
    currentUrl,       \* its local currentUrl, read once the challenges are over
    testDataFile,     \* content of data/test-data.json
    credentialsFile,  \* content of data/credentials.json
    fixtureCall,      \* last fixture lookup: function, key and outcome
    lastCheck,        \* last isLoggedIn call: result, errors raised, menu clicked
    lastSeen,         \* the address and the page answers of that call
    view,             \* the view the results page is in: list or card
    resultItems,      \* the result items each view shows, in order
    valCall,          \* last validateListingInBothViews call: index, views read, result
    elPc,             \* position of ensureLoggedIn
    elRet,            \* what ensureLoggedIn returned
    elLog,            \* the stages the current call went through, with their outcomes
    elAtCall,         \* address, cookies and snapshot file when the call started
    elCalls,          \* number of calls of ensureLoggedIn so far
    elPrevRet,        \* what the call before returned
    lgPc,             \* position of commands.login
    lgRet,            \* its result: true, false, or throw when it rejects
    lgError,          \* the step of the login call that raised an error
    scKind,           \* the scenario that runs: one guarded by the hook, or the login test
    scPc,             \* its position
    scSteps,          \* steps of the scenario body executed
    scSaved,          \* outcome of the saveLoginState call of the scenario
    scRuns            \* scenarios started so far

snapVars == <<stateFile, contextCookies, validCall>>
mockVars == <<interceptedUrls, interceptedRequests, isMonitoringRequests, routes, lastOp,
              requested>>

pageVars == <<url, page, headlessEnv, baseUrl>>
hpcVars  == <<hpc, hpcOpts, timeElapsed, pollWaits, hpcError, hpcNav, currentUrl>>

fixVars  == <<testDataFile, credentialsFile, fixtureCall>>

detVars  == <<lastCheck, lastSeen>>

elVars   == <<elPc, elRet, elLog, elAtCall, elCalls, elPrevRet>>
lgVars   == <<lgPc, lgRet, lgError>>
scVars   == <<scKind, scPc, scSteps, scSaved, scRuns>>
viewVars == <<view, resultItems, valCall>>
asyncVars == <<pending>>

vars == <<snapVars, mockVars, pageVars, hpcVars, fixVars, detVars, elVars, lgVars, scVars,
         viewVars, asyncVars>>

\* what the operations of one component leave alone
snapOthers == <<mockVars, pageVars, hpcVars, fixVars, detVars, elVars, lgVars, scVars,
               viewVars, asyncVars>>
mockOthers == <<snapVars, pageVars, hpcVars, fixVars, detVars, elVars, lgVars, scVars,
               viewVars, asyncVars>>
hpcOthers  == <<snapVars, mockVars, fixVars, detVars, elVars, lgVars, scVars,
               viewVars, asyncVars>>
fixOthers  == <<snapVars, mockVars, pageVars, hpcVars, detVars, elVars, lgVars, scVars,
               viewVars, asyncVars>>
detOthers  == <<snapVars, mockVars, hpcVars, fixVars, elVars, lgVars, scVars,
               viewVars, asyncVars>>
\* the login flow touches the address and the cookies, and nothing else of these
elOthers   == <<validCall, mockVars, page, headlessEnv, baseUrl, hpcVars, fixVars, detVars,
               scVars, viewVars, asyncVars>>

-----------------------------------------------------------------------------
(* Bounds of the model *)

MaxCookies == 2
MaxLog == 2
MaxMocks == 2
MaxCalls == 2
MaxSteps == 2
MaxResults == 2
MaxPending == 2

-----------------------------------------------------------------------------
(* JavaScript values *)

RECURSIVE SeqsUpTo(_, _)
SeqsUpTo(S, n) ==
    IF n = 0 THEN {<<>>}
    ELSE LET shorter == SeqsUpTo(S, n - 1)
         IN shorter \cup {Append(s, x) : s \in {t \in shorter : Len(t) = n - 1}, x \in S}

\* a value with a type tag t, a number n (the value of a number, 1/0 for
\* true/false, the length of a string) and the items of an array
JsVal(t, n, items) == [t |-> t, n |-> n, items |-> items]

JsUndefined == JsVal("undefined", 0, <<>>)
JsNull      == JsVal("null", 0, <<>>)
JsArray(s)  == JsVal("array", Len(s), s)

\* ToBoolean: undefined, null, false, 0 and "" are falsy (JSON has no NaN)
Truthy(v) ==
    ~ \/ v.t \in {"undefined", "null"}
      \/ v.t \in {"boolean", "number", "string"} /\ v.n = 0

\* the name of the value an expression evaluated to, as a caller sees it
JsName(v) ==
    CASE v.t = "undefined" -> "undefined"
      [] v.t = "null"      -> "null"
      [] v.t = "boolean"   -> IF v.n = 0 THEN "false" ELSE "true"
      [] v.t = "number"    -> IF v.n = 0 THEN "0" ELSE "number"
      [] v.t = "string"    -> IF v.n = 0 THEN "''" ELSE "string"
      [] OTHER             -> v.t

\* v.length > 0 : only arrays and strings have a length; undefined > 0 is false
LengthPositive(v) == v.t \in {"array", "string"} /\ v.n > 0

-----------------------------------------------------------------------------
(* The session snapshot file, data/state.json *)

Cookies == {"fresh", "stale", "malformed"}

CookieArrays == {JsArray(s) : s \in SeqsUpTo(Cookies, MaxCookies)}

\* what the `cookies` property of the parsed snapshot can be
CookiesValues ==
    CookieArrays \cup
    { JsUndefined, JsNull, JsVal("object", 0, <<>>),
      JsVal("boolean", 0, <<>>), JsVal("boolean", 1, <<>>),
      JsVal("number", 0, <<>>), JsVal("number", 1, <<>>),
      JsVal("string", 0, <<>>), JsVal("string", 1, <<>>) }

\* what JSON.parse of the snapshot can return: an object with (or without) a
\* `cookies` property, or a value that is not an object
SnapshotJson ==
    { [t |-> "object", n |-> 0, cookies |-> c] : c \in CookiesValues } \cup
    { [t |-> tn[1], n |-> tn[2], cookies |-> JsUndefined] :
        tn \in { <<"null", 0>>, <<"boolean", 0>>, <<"boolean", 1>>, <<"number", 0>>,
                 <<"number", 1>>, <<"string", 0>>, <<"string", 1>>, <<"array", 0>> } }

NoJson == [t |-> "undefined", n |-> 0, cookies |-> JsUndefined]

StateFiles ==
    { [kind |-> k, json |-> NoJson] : k \in {"missing", "unreadable", "badjson"} } \cup
    { [kind |-> "json", json |-> j] : j \in SnapshotJson }

SnapshotOf(cookieSeq) ==
    [kind |-> "json", json |-> [t |-> "object", n |-> 0, cookies |-> JsArray(cookieSeq)]]

\* the body of the try block: fs.access, fs.readFile and JSON.parse each throw
\* on a file they cannot handle; then state && state.cookies && length > 0
StateFileTry(file) ==
    IF file.kind = "missing" THEN "throw"
    ELSE IF file.kind = "unreadable" THEN "throw"
    ELSE IF file.kind = "badjson" THEN "throw"
    ELSE LET state == file.json
         IN IF ~Truthy(state) THEN JsName(state)
            ELSE IF ~Truthy(state.cookies) THEN JsName(state.cookies)
            ELSE IF LengthPositive(state.cookies) THEN "true" ELSE "false"

isStateFileValidNoCatch(file) == StateFileTry(file)

isStateFileValid(file) ==
    LET r == StateFileTry(file)
    IN IF r = "throw" THEN "false" ELSE r

NoCall == [file |-> [kind |-> "none", json |-> NoJson], ret |-> "none"]

SnapInit ==
    /\ stateFile \in StateFiles
    /\ contextCookies \in SeqsUpTo(Cookies, MaxCookies)
    /\ validCall = NoCall

SnapIdle ==
    /\ stateFile = [kind |-> "missing", json |-> NoJson]
    /\ contextCookies = <<>>
    /\ validCall = NoCall

IsStateFileValid ==
    /\ validCall' = [file |-> stateFile, ret |-> isStateFileValid(stateFile)]
    /\ UNCHANGED <<stateFile, contextCookies>>
    /\ UNCHANGED snapOthers

\* saveBrowserState: storageState() or the write may fail, which is logged
\* and swallowed; otherwise the file holds the context's cookies
savedState(ok, file, jar) == IF ok THEN SnapshotOf(jar) ELSE file

saveBrowserState(ok) ==
    /\ stateFile' = savedState(ok, stateFile, contextCookies)
    /\ UNCHANGED <<contextCookies, validCall>>
    /\ UNCHANGED snapOthers

SaveBrowserState == \E ok \in BOOLEAN : saveBrowserState(ok)

SnapNext == IsStateFileValid \/ SaveBrowserState

-----------------------------------------------------------------------------
(* Claims about isStateFileValid *)

SnapCalled == validCall.ret # "none"

CookiesOf(file) == file.json.cookies

HasCookiesArray(file) ==
    file.kind = "json" /\ file.json.t = "object" /\ CookiesOf(file).t = "array"

\* C1: isStateFileValid returns true for every snapshot whose parsed JSON has
\* a `cookies` array with at least one element, and returns the boolean false
\* for every snapshot whose `cookies` array is empty or whose `cookies` key is
\* missing.
C1_TrueOrBooleanFalse ==
    SnapCalled =>
        /\ (HasCookiesArray(validCall.file) /\ CookiesOf(validCall.file).n > 0)
              => validCall.ret = "true"
        /\ (HasCookiesArray(validCall.file) /\ CookiesOf(validCall.file).n = 0)
              => validCall.ret = "false"
        /\ (validCall.file.kind = "json" /\ validCall.file.json.t = "object"
              /\ CookiesOf(validCall.file).t = "undefined")
              => validCall.ret = "false"

\* C2: isStateFileValid never throws: when the snapshot file does not exist,
\* cannot be read, or is not valid JSON, it returns false.
C2_NeverThrows ==
    SnapCalled =>
        /\ validCall.ret # "throw"
        /\ validCall.file.kind \in {"missing", "unreadable", "badjson"}
              => validCall.ret = "false"

C2_Witness ==
    /\ SnapCalled
    /\ validCall.file.kind = "badjson"
    /\ validCall.ret = "false"

-----------------------------------------------------------------------------
(* Strings: sequences of characters; String.prototype.includes *)

\* does p occur in u at position k (1-based), compared character by character
RECURSIVE MatchAt(_, _, _, _)
MatchAt(u, p, k, j) ==
    IF j > Len(p) THEN TRUE
    ELSE IF k + j - 1 > Len(u) THEN FALSE
    ELSE IF u[k + j - 1] # p[j] THEN FALSE
    ELSE MatchAt(u, p, k, j + 1)

\* scan the positions of u from k on
RECURSIVE IncludesFrom(_, _, _)
IncludesFrom(u, p, k) ==
    IF k + Len(p) - 1 > Len(u) THEN FALSE
    ELSE IF MatchAt(u, p, k, 1) THEN TRUE
    ELSE IncludesFrom(u, p, k + 1)

\* u.includes(p)
Includes(u, p) == IncludesFrom(u, p, 1)

\* a glob of the routing layer: "**" and "*" match any run of characters
\* (the URLs of the model hold no "/"), every other token matches itself
RECURSIVE GlobMatch(_, _)
GlobMatch(g, u) ==
    IF g = <<>> THEN u = <<>>
    ELSE IF Head(g) \in {"**", "*"}
         THEN \/ GlobMatch(Tail(g), u)
              \/ u # <<>> /\ GlobMatch(g, Tail(u))
    ELSE u # <<>> /\ Head(u) = Head(g) /\ GlobMatch(Tail(g), Tail(u))

-----------------------------------------------------------------------------
(* The network-mock harness *)

\* request URLs, as character sequences: lower and upper case, and a URL
\* that holds the character "*" itself
Urls ==
    { <<"s">>, <<"S">>, <<"s", "*", "q">>, <<"Q", "s", "q">> }

\* the substrings the test asks the log about
Substrings ==
    { <<>>, <<"s">>, <<"S">>, <<"s", "q">>, <<"*">>, <<"Q", "s">> }

CatchAll == <<"**">>

\* patterns handed to setupMockResponse, such as '**/search?*'
MockPatterns == { <<"**", "s", "*">>, <<"**", "Q", "*">> }

MockBodies == {"data1", "data2"}

Observer == [pattern |-> CatchAll, kind |-> "observer", body |-> "none"]
Mock(pattern, body) == [pattern |-> pattern, kind |-> "mock", body |-> body]

\* JSON.stringify(mockData)
JsonStringify(data) == <<"json", data>>

NoOp == [op |-> "none", arg |-> <<>>, ret |-> "none", status |-> 0,
         contentType |-> "none", body |-> <<>>]

\* a call that was not made yet
NotCalled == [kind |-> "none", pc |-> "idle", pattern |-> <<>>, body |-> "none"]

NoPending == [c \in 1..MaxPending |-> NotCalled]

MockIdle ==
    /\ interceptedUrls = <<>>
    /\ interceptedRequests = <<>>
    /\ isMonitoringRequests = FALSE
    /\ routes = <<>>
    /\ lastOp = NoOp
    /\ requested = <<>>
    /\ pending = NoPending

\* the constructor
MockInit == MockIdle

\* a variant without the guard of line 104
startRequestMonitoringUnguarded(rs, monitoring) == Append(rs, Observer)

\* the observer is installed once; later calls return at the guard
startRequestMonitoring(rs, monitoring) ==
    IF monitoring THEN rs ELSE Append(rs, Observer)

StartRequestMonitoring ==
    /\ routes' = startRequestMonitoring(routes, isMonitoringRequests)
    /\ isMonitoringRequests' = TRUE
    /\ lastOp' = [NoOp EXCEPT !.op = "startRequestMonitoring"]
    /\ UNCHANGED <<interceptedUrls, interceptedRequests, requested>>
    /\ UNCHANGED mockOthers

NumMocks == Cardinality({i \in DOMAIN routes : routes[i].kind = "mock"})

SetupMockResponse ==
    \E pattern \in MockPatterns, body \in MockBodies :
        /\ NumMocks < MaxMocks
        /\ routes' = Append(startRequestMonitoring(routes, isMonitoringRequests),
                            Mock(pattern, body))
        /\ isMonitoringRequests' = TRUE
        /\ lastOp' = [NoOp EXCEPT !.op = "setupMockResponse", !.arg = pattern]
        /\ UNCHANGED <<interceptedUrls, interceptedRequests, requested>>
        /\ UNCHANGED mockOthers

\* the routing layer hands a request to the matching handler registered last
MatchingRoutes(rs, reqUrl) == {i \in DOMAIN rs : GlobMatch(rs[i].pattern, reqUrl)}

Max(S) == CHOOSE x \in S : \A y \in S : y <= x

\* by: the kind of the handler that ran; route: its position in routes
\* a variant in which the matching handler registered first is run
RouteForFirstRegistered(m) == CHOOSE x \in m : \A y \in m : x <= y

\* when several routes match, the one registered last is run
RouteFor(m) == Max(m)

\* a variant that keeps the last URL only
pushedOver(log, reqUrl) == <<reqUrl>>

\* line 116: this.interceptedUrls.push(url)
pushed(log, reqUrl) == Append(log, reqUrl)

Handled(reqUrl, by, route) == [url |-> reqUrl, by |-> by, route |-> route]

\* a request made by the page: the observer pushes the URL and continues the
\* request (route.continue sends it to the network, no other handler is
\* run), a mock handler pushes the request and fulfils it, a request no
\* handler matches goes to the network untouched
Request ==
    \E reqUrl \in Urls :
        /\ Len(requested) < MaxLog
        /\ LET m == MatchingRoutes(routes, reqUrl)
           IN IF m = {}
              THEN /\ lastOp' = [NoOp EXCEPT !.op = "request", !.arg = reqUrl, !.ret = "network"]
                   /\ requested' = Append(requested, Handled(reqUrl, "none", 0))
                   /\ UNCHANGED <<interceptedUrls, interceptedRequests>>
              ELSE LET h == routes[RouteFor(m)]
                   IN IF h.kind = "observer"
                      THEN /\ interceptedUrls' = pushed(interceptedUrls, reqUrl)
                           /\ lastOp' = [NoOp EXCEPT !.op = "request", !.arg = reqUrl,
                                                     !.ret = "network"]
                           /\ requested' = Append(requested, Handled(reqUrl, "observer", RouteFor(m)))
                           /\ UNCHANGED interceptedRequests
                      ELSE /\ interceptedRequests' = Append(interceptedRequests, reqUrl)
                           /\ lastOp' = [NoOp EXCEPT !.op = "request", !.arg = reqUrl,
                                                     !.ret = "fulfilled", !.status = 200,
                                                     !.contentType = "application/json",
                                                     !.body = JsonStringify(h.body)]
                           /\ requested' = Append(requested, Handled(reqUrl, "mock", RouteFor(m)))
                           /\ UNCHANGED interceptedUrls
        /\ UNCHANGED <<isMonitoringRequests, routes>>
        /\ UNCHANGED mockOthers

\* a variant that reads the query as a glob
wasUrlPatternInterceptedGlob(log, pattern) ==
    {i \in DOMAIN log : GlobMatch(<<"**">> \o pattern \o <<"**">>, log[i])} # {}

\* interceptedUrls.filter(url => url.includes(pattern)).length > 0
wasUrlPatternIntercepted(log, pattern) ==
    Len(SelectSeq(log, LAMBDA reqUrl : Includes(reqUrl, pattern))) > 0

WasUrlPatternIntercepted ==
    \E pattern \in Substrings :
        /\ lastOp' = [NoOp EXCEPT !.op = "wasUrlPatternIntercepted", !.arg = pattern,
                        !.ret = IF wasUrlPatternIntercepted(interceptedUrls, pattern)
                                THEN "true" ELSE "false"]
        /\ UNCHANGED <<interceptedUrls, interceptedRequests, isMonitoringRequests, routes,
                       requested>>
        /\ UNCHANGED mockOthers

\* lines 181-183: the array itself is returned, not a copy
GetInterceptedUrls ==
    /\ lastOp' = [NoOp EXCEPT !.op = "getInterceptedUrls", !.ret = "interceptedUrls"]
    /\ UNCHANGED <<interceptedUrls, interceptedRequests, isMonitoringRequests, routes,
                   requested>>
    /\ UNCHANGED mockOthers

MockNext ==
    \/ StartRequestMonitoring
    \/ SetupMockResponse
    \/ Request
    \/ WasUrlPatternIntercepted
    \/ GetInterceptedUrls

-----------------------------------------------------------------------------
(* Harness calls that overlap: made without await, or through Promise.all *)

asyncOthers == <<snapVars, pageVars, hpcVars, fixVars, detVars, elVars, lgVars, scVars,
                 viewVars>>

\* a call runs up to its first await: the guard of line 104 is read, and
\* page.route of line 111 registers the observer before it suspends; a call
\* that returns at the guard resumes its caller at the next turn
AsyncCall ==
    \E c \in 1..MaxPending, kind \in {"startRequestMonitoring", "setupMockResponse"},
       pattern \in MockPatterns, body \in MockBodies :
        /\ pending[c].pc = "idle"
        /\ kind = "startRequestMonitoring" => (pattern = <<"**", "s", "*">> /\ body = "data1")
        /\ routes' = startRequestMonitoring(routes, isMonitoringRequests)
        /\ pending' = [pending EXCEPT ![c] =
                          [kind |-> kind,
                           pc |-> IF ~isMonitoringRequests THEN "route"
                                  ELSE IF kind = "setupMockResponse" THEN "mock" ELSE "done",
                           pattern |-> IF kind = "setupMockResponse" THEN pattern ELSE <<>>,
                           body |-> IF kind = "setupMockResponse" THEN body ELSE "none"]]
        /\ UNCHANGED <<interceptedUrls, interceptedRequests, isMonitoringRequests, lastOp,
                       requested>>
        /\ UNCHANGED asyncOthers

\* the await of line 111 ends: lines 124-129 set the flag
AsyncRouted ==
    \E c \in 1..MaxPending :
        /\ pending[c].pc = "route"
        /\ isMonitoringRequests' = TRUE
        /\ pending' = [pending EXCEPT ![c].pc =
                          IF pending[c].kind = "setupMockResponse" THEN "mock" ELSE "done"]
        /\ UNCHANGED <<interceptedUrls, interceptedRequests, routes, lastOp, requested>>
        /\ UNCHANGED asyncOthers

\* setupMockResponse resumes after line 141 and registers its route
AsyncMock ==
    \E c \in 1..MaxPending :
        /\ pending[c].pc = "mock"
        /\ routes' = Append(routes, Mock(pending[c].pattern, pending[c].body))
        /\ pending' = [pending EXCEPT ![c].pc = "done"]
        /\ UNCHANGED <<interceptedUrls, interceptedRequests, isMonitoringRequests, lastOp,
                       requested>>
        /\ UNCHANGED asyncOthers

AsyncNext ==
    \/ AsyncCall
    \/ AsyncRouted
    \/ AsyncMock
    \/ Request

-----------------------------------------------------------------------------
(* Claims about the request log *)

\* S occurs in u: u is some prefix, then S, then some suffix
Occurs(S, u) ==
    \E i \in 0..Len(u), j \in 0..Len(u) :
        /\ i <= j
        /\ u = SubSeq(u, 1, i) \o S \o SubSeq(u, j + 1, Len(u))

Queried == lastOp.op = "wasUrlPatternIntercepted"

\* C3: wasUrlPatternIntercepted(S) returns true if and only if at least one
\* URL recorded in interceptedUrls contains S as a case-sensitive literal
\* substring (no glob or regex reading of S).
C3_QueryIffSubstring ==
    Queried =>
        (lastOp.ret = "true" <=>
            \E i \in DOMAIN interceptedUrls : Occurs(lastOp.arg, interceptedUrls[i]))

\* the log holds a URL with "s*q" and lower-case "s"; the query "S" is answered false
C3_Witness ==
    /\ Queried
    /\ lastOp.arg = <<"S">>
    /\ lastOp.ret = "false"
    /\ \E i \in DOMAIN interceptedUrls : interceptedUrls[i] = <<"s", "*", "q">>

-----------------------------------------------------------------------------
(* Claims about the observer and the mocks *)

Last(log) == log[Len(log)]

RECURSIVE UrlsOf(_)
UrlsOf(log) == IF log = <<>> THEN <<>> ELSE <<Head(log).url>> \o UrlsOf(Tail(log))

\* the requests made once the observer was installed
SinceMonitoring == SelectSeq(requested, LAMBDA r : r.by # "none")

\* C11: once monitoring has started, interceptedUrls is the sequence of the
\* URLs of all requests made since, in arrival order, repeats kept, also for
\* requests that match a pattern given to setupMockResponse.
C11_LogHoldsEveryRequest ==
    isMonitoringRequests => interceptedUrls = UrlsOf(SinceMonitoring)

MocksMatching(reqUrl) ==
    {i \in DOMAIN routes : routes[i].kind = "mock" /\ GlobMatch(routes[i].pattern, reqUrl)}

Requested == lastOp.op = "request"

Answered(data) ==
    /\ lastOp.ret = "fulfilled"
    /\ lastOp.status = 200
    /\ lastOp.contentType = "application/json"
    /\ lastOp.body = JsonStringify(data)

C13_MockedRequestIsLogged ==
    Queried =>
        \A i \in DOMAIN requested :
            (requested[i].by = "mock" /\ Occurs(lastOp.arg, requested[i].url))
                => lastOp.ret = "true"

IsPrefix(a, b) == Len(a) <= Len(b) /\ SubSeq(b, 1, Len(a)) = a

\* C25: the request log is append-only: every step of the harness leaves
\* the earlier log as a prefix of the later one;
\* startRequestMonitoring, setupMockResponse, wasUrlPatternIntercepted and
\* getInterceptedUrls leave it unchanged; wasUrlPatternIntercepted answers
\* from the log, and a substring it has answered true for is answered true
\* for on every later log.
C25_LogAppendOnly ==
    /\ [](Queried => (lastOp.ret = "true"
                        <=> \E i \in DOMAIN interceptedUrls :
                                Occurs(lastOp.arg, interceptedUrls[i])))
    /\ [][/\ IsPrefix(interceptedUrls, interceptedUrls')
          /\ lastOp'.op # "request" => interceptedUrls' = interceptedUrls
          /\ \A S \in Substrings :
                wasUrlPatternIntercepted(interceptedUrls, S)
                    => wasUrlPatternIntercepted(interceptedUrls', S)]_mockVars

\* a second request was logged behind a first one: a query for "s" is
\* answered true by the first entry, which the second would not do alone
C25_Witness ==
    /\ Len(interceptedUrls) = 2
    /\ lastOp.op = "request"
    /\ lastOp.arg = <<"S">>
    /\ interceptedUrls[1] = <<"s">>
    /\ wasUrlPatternIntercepted(interceptedUrls, <<"s">>)
    /\ ~wasUrlPatternIntercepted(<<interceptedUrls[2]>>, <<"s">>)

Observers == {i \in DOMAIN routes : routes[i].kind = "observer"}

\* the requests the observer handled
ByObserver == SelectSeq(requested, LAMBDA r : r.by = "observer")

\* C27: with calls of startRequestMonitoring and setupMockResponse that
\* are awaited, one observer is installed by the first call and none by
\* any later call, and interceptedUrls holds each request the observer
\* handled exactly once, in order.
C27_OneObserver ==
    /\ [](/\ Cardinality(Observers) = IF isMonitoringRequests THEN 1 ELSE 0
          /\ isMonitoringRequests <=> routes # <<>>
          /\ routes # <<>> => routes[1] = Observer
          /\ interceptedUrls = UrlsOf(ByObserver))
    /\ [][isMonitoringRequests => Observers' = Observers]_mockVars

\* startRequestMonitoring called again after two mocks were set up, and a
\* request the observer handled
C27_Witness ==
    /\ lastOp.op = "startRequestMonitoring"
    /\ Len(routes) = 3
    /\ Len(interceptedUrls) = 1
    /\ Len(requested) = 1

\* C28, as stated: whatever the interleaving of overlapping calls of
\* startRequestMonitoring and setupMockResponse, the guard on
\* isMonitoringRequests keeps the observer from being installed a second
\* time.
C28_GuardHoldsUnderOverlap == Cardinality(Observers) <= 1

-----------------------------------------------------------------------------
(* Addresses: sequences of tokens, so that includes and startsWith search *)

AuthDomain == <<"https://", "login.", "funda.nl">>
MainDomain == <<"https://", "www.", "funda.nl">>

LoginPath    == <<"account/", "login">>
RegisterPath == <<"account/", "aanmelden">>
SearchPath   == <<"zoeken", "/koop">>

\* `${targetDomain}/${path}`
Address(domain, path) == domain \o <<"/">> \o path

BlankUrl == <<"about:blank">>

PageUrls ==
    { BlankUrl,
      Address(AuthDomain, LoginPath),
      Address(MainDomain, LoginPath),
      Address(MainDomain, SearchPath),
      Address(AuthDomain, SearchPath),
      <<"https://", "funda.nl", "/">> }

\* path.startsWith(prefix)
StartsWith(path, prefix) ==
    Len(path) >= Len(prefix) /\ SubSeq(path, 1, Len(prefix)) = prefix

AlwaysUseMainSitePaths == { <<"zoeken">>, <<"koop">>, <<"huur">>, <<"mijn">> }

\* BasePage.navigate: the address handed to page.goto
navigateTarget(base, path, useMainSite) ==
    LET domain == IF useMainSite THEN MainDomain ELSE base
        shouldUseMainSite == \E prefix \in AlwaysUseMainSitePaths : StartsWith(path, prefix)
        targetDomain == IF shouldUseMainSite THEN MainDomain ELSE domain
    IN Address(targetDomain, path)

\* where page.goto(target) can leave the page: at the target, or wherever
\* the site redirects to
Landings(target) == {target} \cup PageUrls

-----------------------------------------------------------------------------
(* The challenge handler, BasePage.handlePossibleCaptcha *)

Timeout == 120000
CheckInterval == 3000

HeadlessValues == {"unset", "true", "false", "0"}

\* process.env.HEADLESS !== 'false' && process.env.HEADLESS !== '0'
NonInteractive(h) == h # "false" /\ h # "0"

PageStates == [accessDenied : BOOLEAN, captcha : BOOLEAN, loginForm : BOOLEAN, image : BOOLEAN]

\* the options a caller passes; <<>> stands for a returnPath left out
CallerOptions == [returnPath : {<<>>, RegisterPath, SearchPath}, useMainSite : BOOLEAN]

\* options.returnPath || 'account/login', options.useMainSite || false
WithDefaults(o) ==
    [returnPath |-> IF o.returnPath = <<>> THEN LoginPath ELSE o.returnPath,
     useMainSite |-> o.useMainSite]

HeadlessError == "CAPTCHA detected in headless mode. Test cannot proceed automatically."
TimeoutError  == "Failed to handle CAPTCHA: CAPTCHA solving timeout exceeded. Test failed."
WaitError     == "Failed to handle CAPTCHA: waitForTimeout failed"
ImageError    == "Image CAPTCHA solving timeout exceeded. Test failed."
GotoError     == "page.goto failed"

HpcIdle ==
    /\ hpc = "idle"
    /\ hpcOpts = WithDefaults([returnPath |-> <<>>, useMainSite |-> FALSE])
    /\ timeElapsed = 0
    /\ pollWaits = 0
    /\ hpcError = "none"
    /\ hpcNav = <<>>
    /\ currentUrl = <<>>

\* a page that shows no marker, in a run without HEADLESS set
PageQuiet ==
    /\ page = [accessDenied |-> FALSE, captcha |-> FALSE, loginForm |-> FALSE, image |-> FALSE]
    /\ headlessEnv = "unset"
    /\ baseUrl = AuthDomain

PageIdle ==
    /\ url = BlankUrl
    /\ PageQuiet

PageInit ==
    /\ url \in PageUrls
    /\ page \in PageStates
    /\ headlessEnv \in HeadlessValues
    /\ baseUrl \in {AuthDomain, MainDomain}

\* locator.isVisible(...).catch(() => false): a query that fails reads as
\* "not visible"
Seen(shown, failed) == shown /\ ~failed

HpcCall ==
    \E o \in CallerOptions :
        /\ hpc \in {"idle", "returned", "threw"}
        /\ hpc' = "accessCheck"
        /\ hpcOpts' = WithDefaults(o)
        /\ timeElapsed' = 0
        /\ pollWaits' = 0
        /\ hpcError' = "none"
        /\ hpcNav' = <<>>
        /\ currentUrl' = <<>>
        /\ UNCHANGED pageVars
        /\ UNCHANGED hpcOthers

\* lines 207-217: on the access-denied page, reload and wait
HpcAccessCheck ==
    \E failed \in BOOLEAN :
        /\ hpc = "accessCheck"
        /\ hpc' = "captchaCheck"
        /\ IF Seen(page.accessDenied, failed)
           THEN page' \in PageStates
           ELSE page' = page
        /\ UNCHANGED <<url, headlessEnv, baseUrl>>
        /\ UNCHANGED <<hpcOpts, timeElapsed, pollWaits, hpcError, hpcNav, currentUrl>>
        /\ UNCHANGED hpcOthers

\* where the detection of the checkbox-style challenge leads
afterCaptchaDetected(h) == IF NonInteractive(h) THEN "threw" ELSE "pollCheck"

\* lines 219-231
HpcCaptchaCheck ==
    \E failed \in BOOLEAN :
        /\ hpc = "captchaCheck"
        /\ IF Seen(page.captcha, failed)
           THEN /\ hpc' = afterCaptchaDetected(headlessEnv)
                /\ hpcError' = IF hpc' = "threw" THEN HeadlessError ELSE "none"
           ELSE /\ hpc' = "imageCheck"
                /\ hpcError' = "none"
        /\ UNCHANGED pageVars
        /\ UNCHANGED <<hpcOpts, timeElapsed, pollWaits, hpcNav, currentUrl>>
        /\ UNCHANGED hpcOthers

\* the loop condition of line 252
loopContinuesInclusive(elapsed) == elapsed <= Timeout

loopContinues(elapsed) == elapsed < Timeout

\* lines 252-260 and 269-271: the head of the loop, the check of one tick,
\* and the timeout raised once the loop is left without a break
HpcPollCheck ==
    \E failedTitle \in BOOLEAN, failedForm \in BOOLEAN :
        /\ hpc = "pollCheck"
        /\ IF loopContinues(timeElapsed)
           THEN LET stillOnCaptchaPage == Seen(page.captcha, failedTitle)
                    loginFormVisible == Seen(page.loginForm, failedForm)
                IN /\ hpc' = IF ~stillOnCaptchaPage \/ loginFormVisible
                             THEN "stabilize" ELSE "pollWait"
                   /\ hpcError' = "none"
           ELSE /\ hpc' = "threw"
                /\ hpcError' = TimeoutError
        /\ UNCHANGED pageVars
        /\ UNCHANGED <<hpcOpts, timeElapsed, pollWaits, hpcNav, currentUrl>>
        /\ UNCHANGED hpcOthers

\* lines 263-264: one wait of checkInterval; a wait that fails is caught at
\* line 276 and raised again
HpcPollWait ==
    \E ok \in BOOLEAN :
        /\ hpc = "pollWait"
        /\ IF ok
           THEN /\ timeElapsed' = timeElapsed + CheckInterval
                /\ pollWaits' = pollWaits + 1
                /\ hpc' = "pollCheck"
                /\ hpcError' = "none"
           ELSE /\ hpc' = "threw"
                /\ hpcError' = WaitError
                /\ UNCHANGED <<timeElapsed, pollWaits>>
        /\ UNCHANGED pageVars
        /\ UNCHANGED <<hpcOpts, hpcNav, currentUrl>>
        /\ UNCHANGED hpcOthers

\* lines 273-275: the wait of 2000 ms that ends the try block, and with it
\* the life of the block's timeElapsed
afterClearedPollAgain(ok) == IF ok THEN "pollCheck" ELSE "threw"

\* line 282 follows the try block; an error of the wait is raised again
afterCleared(ok) == IF ok THEN "imageCheck" ELSE "threw"

HpcStabilize ==
    \E ok \in BOOLEAN :
        /\ hpc = "stabilize"
        /\ hpc' = afterCleared(ok)
        /\ hpcError' = IF ok THEN "none" ELSE WaitError
        /\ timeElapsed' = IF ok THEN 0 ELSE timeElapsed
        /\ pollWaits' = IF ok THEN 0 ELSE pollWaits
        /\ UNCHANGED pageVars
        /\ UNCHANGED <<hpcOpts, hpcNav, currentUrl>>
        /\ UNCHANGED hpcOthers

\* lines 282-287
HpcImageCheck ==
    \E failed \in BOOLEAN :
        /\ hpc = "imageCheck"
        /\ hpc' = IF Seen(page.image, failed) THEN "imageWait" ELSE "resync"
        /\ UNCHANGED pageVars
        /\ UNCHANGED <<hpcOpts, timeElapsed, pollWaits, hpcError, hpcNav, currentUrl>>
        /\ UNCHANGED hpcOthers

\* lines 291-308: the race of "marker gone" and "navigation", each with a
\* ceiling of 120000 ms, then the wait of 2000 ms
HpcImageWait ==
    \E outcome \in {"gone", "navigated", "timeout"}, landing \in PageUrls :
        /\ hpc = "imageWait"
        /\ outcome = "gone" => ~page.image
        /\ outcome = "timeout" => page.image
        /\ url' = IF outcome = "navigated" THEN landing ELSE url
        /\ hpc' = IF outcome = "timeout" THEN "threw" ELSE "resync"
        /\ hpcError' = IF outcome = "timeout" THEN ImageError ELSE "none"
        /\ UNCHANGED <<page, headlessEnv, baseUrl>>
        /\ UNCHANGED <<hpcOpts, timeElapsed, pollWaits, hpcNav, currentUrl>>
        /\ UNCHANGED hpcOthers

\* a variant that compares the sites only
needsRenavigationSitesOnly(u, returnPath, useMainSite) ==
    LET onMainSite == Includes(u, <<"www.", "funda.nl">>)
        authSitePath == Includes(returnPath, <<"account/">>)
    IN \/ onMainSite /\ authSitePath /\ ~useMainSite
       \/ ~onMainSite /\ ~authSitePath /\ useMainSite

\* lines 316-322
needsRenavigation(u, returnPath, useMainSite) ==
    LET onMainSite == Includes(u, <<"www.", "funda.nl">>)
        authSitePath == Includes(returnPath, <<"account/">>)
    IN \/ onMainSite /\ authSitePath /\ ~useMainSite
       \/ ~onMainSite /\ ~authSitePath /\ useMainSite
       \/ ~Includes(u, returnPath)

\* line 313: the target domain the handler computes, and names in the
\* message of line 324
targetDomain(useMainSite) == IF useMainSite THEN MainDomain ELSE AuthDomain

\* lines 311-327
HpcResync ==
    \E gotoOk \in BOOLEAN :
        LET target == navigateTarget(baseUrl, hpcOpts.returnPath, hpcOpts.useMainSite)
        IN /\ hpc = "resync"
           /\ currentUrl' = url
           /\ IF needsRenavigation(url, hpcOpts.returnPath, hpcOpts.useMainSite)
              THEN /\ hpcNav' = target
                   /\ IF gotoOk
                      THEN /\ url' \in Landings(target)
                           /\ hpc' = "returned"
                           /\ hpcError' = "none"
                      ELSE /\ url' = url
                           /\ hpc' = "threw"
                           /\ hpcError' = GotoError
              ELSE /\ hpc' = "returned"
                   /\ UNCHANGED <<url, hpcError, hpcNav>>
           /\ UNCHANGED <<page, headlessEnv, baseUrl>>
           /\ UNCHANGED <<hpcOpts, timeElapsed, pollWaits>>
           /\ UNCHANGED hpcOthers

\* the person at the browser, or the site, changes what the page shows
PageChanges ==
    /\ \E marker \in DOMAIN page : page' = [page EXCEPT ![marker] = ~page[marker]]
    /\ UNCHANGED <<url, headlessEnv, baseUrl>>
    /\ UNCHANGED hpcVars
    /\ UNCHANGED hpcOthers

\* the steps of the handler itself
HpcStep ==
    \/ HpcAccessCheck
    \/ HpcCaptchaCheck
    \/ HpcPollCheck
    \/ HpcPollWait
    \/ HpcStabilize
    \/ HpcImageCheck
    \/ HpcImageWait
    \/ HpcResync

HpcNext ==
    \/ HpcCall
    \/ HpcAccessCheck
    \/ HpcCaptchaCheck
    \/ HpcPollCheck
    \/ HpcPollWait
    \/ HpcStabilize
    \/ HpcImageCheck
    \/ HpcImageWait
    \/ HpcResync
    \/ PageChanges

-----------------------------------------------------------------------------
(* Claims about handlePossibleCaptcha *)

\* C4: in non-interactive mode, whenever handlePossibleCaptcha detects a
\* challenge marker of either type, it raises an error at that first detection
\* without entering any poll or wait for the challenge to clear.
C4_NonInteractiveNeverWaits ==
    NonInteractive(headlessEnv) => hpc \notin {"pollCheck", "pollWait", "stabilize", "imageWait"}

\* C5: in interactive mode the handler performs at most 40 poll waits of
\* 3000 ms (accumulated wait 120000 ms, the ceiling), never starts a further
\* wait once the accumulated wait has reached the ceiling, and then raises the
\* timeout error.
C5_CeilingRespected ==
    /\ [](/\ pollWaits <= 40
          /\ timeElapsed = pollWaits * 3000
          /\ timeElapsed <= 120000
          /\ hpc = "pollWait" => timeElapsed < 120000
          /\ hpcError = TimeoutError => (hpc = "threw" /\ pollWaits = 40))
    /\ [][(hpc = "pollCheck" /\ timeElapsed >= 120000)
             => (hpc' = "threw" /\ hpcError' = TimeoutError /\ pollWaits' = pollWaits)]_hpcVars

\* the challenge is still shown after 40 waits, and the timeout was raised
C5_Witness ==
    /\ hpc = "threw"
    /\ hpcError = TimeoutError
    /\ pollWaits = 40
    /\ page.captcha
    /\ ~NonInteractive(headlessEnv)

HpcRunning == hpc \notin {"idle", "returned", "threw"}

\* how far the handler is: the checkbox challenge not yet looked at (1-2),
\* awaited (3), cleared (4), then the same for the image challenge (5-6),
\* re-synchronizing (7), over (8)
HpcRank ==
    [accessCheck |-> 1, captchaCheck |-> 2, pollCheck |-> 3, pollWait |-> 3,
     stabilize |-> 4, imageCheck |-> 5, imageWait |-> 6, resync |-> 7,
     returned |-> 8, threw |-> 8]

HpcAwaiting == hpc \in {"pollCheck", "pollWait"}

HpcForward ==
    HpcRunning => HpcRank[hpc'] >= HpcRank[hpc]

HpcImageLeft ==
    (hpc = "imageWait" /\ hpc' # "imageWait")
        => (hpc' = "resync" \/ (hpc' = "threw" /\ hpcError' = ImageError))

HpcTerminates == HpcRunning ~> (hpc \in {"returned", "threw"})

\* C16, as stated: every invocation terminates, by returning or by raising
\* an error; the handler only moves forward through not-present,
\* awaiting, cleared; a challenge seen as cleared is never waited on
\* again; the awaiting state is left only by clearance or by the
\* timeout error.
C16_AwaitingLeftByClearanceOrTimeout ==
    /\ HpcTerminates
    /\ [][/\ HpcForward
          /\ HpcImageLeft
          /\ (HpcAwaiting /\ ~HpcAwaiting')
                => (hpc' = "stabilize" \/ (hpc' = "threw" /\ hpcError' = TimeoutError))]_hpcVars

\* C16, amended: as above, but the awaiting state of the checkbox
\* challenge is left by clearance, by the timeout error, or by an error of
\* the wait itself, which is raised again as 'Failed to handle CAPTCHA'.
C16_ForwardAndTerminating ==
    /\ HpcTerminates
    /\ [][/\ HpcForward
          /\ HpcImageLeft
          /\ (HpcAwaiting /\ ~HpcAwaiting')
                => \/ hpc' = "stabilize"
                   \/ hpc' = "threw" /\ hpcError' \in {TimeoutError, WaitError}]_hpcVars

\* the handler waited on the challenge and was ended by a failing wait
C16_Witness ==
    /\ hpc = "threw"
    /\ hpcError = WaitError
    /\ pollWaits > 0
    /\ page.captcha

HpcReturned == hpc = "returned"

\* the location does not match the expected one
Mismatch(u, returnPath, useMainSite) ==
    LET onWww == Occurs(<<"www.", "funda.nl">>, u)
        accountPath == Occurs(<<"account/">>, returnPath)
    IN \/ ~Occurs(returnPath, u)
       \/ onWww /\ accountPath /\ ~useMainSite
       \/ ~onWww /\ ~accountPath /\ useMainSite

\* C17: when handlePossibleCaptcha returns normally, it has issued a
\* navigation to returnPath exactly when the location read after the
\* challenges did not match the expected one: the URL does not contain
\* returnPath, or the page is on www.funda.nl while an account/ path on the
\* auth site is expected, or the page is off the main site while a
\* non-account path on the main site is expected.
C17_RenavigatesIffMismatch ==
    HpcReturned =>
        /\ hpcNav # <<>> <=> Mismatch(currentUrl, hpcOpts.returnPath, hpcOpts.useMainSite)
        /\ hpcNav # <<>> =>
              /\ hpcNav = navigateTarget(baseUrl, hpcOpts.returnPath, hpcOpts.useMainSite)
              /\ Occurs(hpcOpts.returnPath, hpcNav)

\* the URL held the return path, but on the main site while the login
\* page of the auth site was expected: the handler navigated
C17_Witness ==
    /\ HpcReturned
    /\ hpcOpts.returnPath = LoginPath
    /\ currentUrl = Address(MainDomain, LoginPath)
    /\ hpcNav = Address(AuthDomain, LoginPath)

\* C20: under the default configuration (no HEADLESS variable set, browser
\* launched headed) a detected checkbox challenge puts the handler into the
\* manual-resolution wait; it does not fail with the headless error.
C20_DefaultModeWaits ==
    /\ [](headlessEnv = "unset" => hpcError # HeadlessError)
    /\ [][(headlessEnv = "unset" /\ hpc = "captchaCheck" /\ hpc' \notin {"captchaCheck", "imageCheck"})
             => hpc' = "pollCheck"]_hpcVars

\* the checkbox challenge has cleared: its page text is gone, or the login
\* form is visible
ChallengeCleared == ~page.captcha \/ page.loginForm

\* C23, as stated: the timeout is declared only if the challenge is still
\* present at the ceiling; a challenge that clears while the accumulated
\* wait is below 120000 ms is seen by a further check of the loop, which
\* leaves the loop as success: a wait that ends on a cleared page is
\* followed by a check of the page, and the timeout error is raised only on
\* a page that still shows the challenge.
C23_TimeoutOnlyIfPresentAtCeiling ==
    [][/\ (hpc = "pollWait" /\ hpc' = "pollCheck" /\ ChallengeCleared)
             => loopContinues(timeElapsed')
       /\ (hpc = "pollCheck" /\ hpcError' = TimeoutError) => ~ChallengeCleared]_vars

\* the domain navigate(path, options) is specified to use
SpecifiedDomain(base, path, useMainSite) ==
    IF \E prefix \in AlwaysUseMainSitePaths : SubSeq(path, 1, Len(prefix)) = prefix
    THEN MainDomain
    ELSE IF useMainSite THEN MainDomain ELSE base

\* C30, as stated: the re-navigation of handlePossibleCaptcha is a
\* navigate(returnPath, {useMainSite}), which targets the main domain for
\* a path that starts with zoeken, koop, huur or mijn, else the main domain
\* when useMainSite is set, else the page object's baseUrl; and it goes to
\* the target domain the handler computes and logs, the auth domain when
\* useMainSite is false and the main domain when it is true, whatever the
\* baseUrl of the page object.
C30_RenavigationGoesToLoggedTarget ==
    hpcNav # <<>> =>
        /\ hpcNav = Address(SpecifiedDomain(baseUrl, hpcOpts.returnPath, hpcOpts.useMainSite),
                            hpcOpts.returnPath)
        /\ hpcNav = Address(targetDomain(hpcOpts.useMainSite), hpcOpts.returnPath)

-----------------------------------------------------------------------------
(* The fixture lookups, getTestData and getCredentials *)

DataTypes == {"search", "mockApi", "constructor"}
UserTypes == {"testUser", "constructor"}

\* the property names every object inherits from its prototype
InheritedNames == {"constructor"}

\* what a key of a fixture holds: nothing (the key is not in the file), an
\* object, or a falsy value
Held == {"absent", "object", "null", "zero"}

\* obj[key]: an own property first, then the prototype chain; reading a
\* property of null throws a TypeError
GetProp(t, own, key) ==
    IF t \in {"null", "undefined"} THEN "TypeError"
    ELSE IF t = "object" /\ key \in DOMAIN own /\ own[key] # "absent" THEN own[key]
    ELSE IF key \in InheritedNames THEN "function"
    ELSE "undefined"

Falsy(v) == v \in {"undefined", "null", "zero"}

NoOwn(K) == [k \in K |-> "absent"]

\* test-data.json: missing, not JSON, or JSON that is null, a number or an object
TestDataFiles ==
    { [kind |-> k, t |-> "undefined", own |-> NoOwn(DataTypes)] : k \in {"missing", "badjson"} } \cup
    { [kind |-> "json", t |-> t, own |-> NoOwn(DataTypes)] : t \in {"null", "number"} } \cup
    { [kind |-> "json", t |-> "object", own |-> o] : o \in [DataTypes -> Held] }

\* credentials.json: as above, with its `users` property
CredentialsFiles ==
    { [kind |-> k, t |-> "undefined", users |-> "absent", own |-> NoOwn(UserTypes)] :
        k \in {"missing", "badjson"} } \cup
    { [kind |-> "json", t |-> "null", users |-> "absent", own |-> NoOwn(UserTypes)] } \cup
    { [kind |-> "json", t |-> "object", users |-> u, own |-> NoOwn(UserTypes)] :
        u \in {"absent", "null", "number"} } \cup
    { [kind |-> "json", t |-> "object", users |-> "object", own |-> o] :
        o \in [UserTypes -> Held] }

\* loadTestData: the parsed file, or {} when reading or parsing fails
loadTestData(file) ==
    IF file.kind = "json" THEN file
    ELSE [file EXCEPT !.kind = "json", !.t = "object"]

Thrown(e)   == [kind |-> "throw", what |-> e]
Returned(v) == [kind |-> "return", what |-> v]

getTestData(file, dataType) ==
    LET data == loadTestData(file)
        v == GetProp(data.t, data.own, dataType)
    IN IF v = "TypeError" THEN Thrown("TypeError")
       ELSE IF Falsy(v) THEN Thrown("not found")
       ELSE Returned(v)

getCredentials(file, userType) ==
    LET data == loadTestData(file)
        users == IF data.t \in {"null", "undefined"} THEN "TypeError"
                 ELSE IF data.users = "absent" THEN "undefined" ELSE data.users
    IN IF users = "TypeError" THEN Thrown("TypeError")
       ELSE IF Falsy(users) THEN Thrown("not found")
       ELSE LET v == GetProp(users, data.own, userType)
            IN IF Falsy(v) THEN Thrown("not found") ELSE Returned(v)

NoFixtureCall == [fn |-> "none", key |-> "none", out |-> Returned("none")]

FixIdle ==
    /\ testDataFile = [kind |-> "missing", t |-> "undefined", own |-> NoOwn(DataTypes)]
    /\ credentialsFile =
          [kind |-> "missing", t |-> "undefined", users |-> "absent", own |-> NoOwn(UserTypes)]
    /\ fixtureCall = NoFixtureCall

FixInit ==
    /\ testDataFile \in TestDataFiles
    /\ credentialsFile \in CredentialsFiles
    /\ fixtureCall = NoFixtureCall

GetTestData ==
    \E dataType \in DataTypes :
        /\ fixtureCall' = [fn |-> "getTestData", key |-> dataType,
                           out |-> getTestData(testDataFile, dataType)]
        /\ UNCHANGED <<testDataFile, credentialsFile>>
        /\ UNCHANGED fixOthers

GetCredentials ==
    \E userType \in UserTypes :
        /\ fixtureCall' = [fn |-> "getCredentials", key |-> userType,
                           out |-> getCredentials(credentialsFile, userType)]
        /\ UNCHANGED <<testDataFile, credentialsFile>>
        /\ UNCHANGED fixOthers

FixNext == GetTestData \/ GetCredentials

-----------------------------------------------------------------------------
(* Claims about the fixture lookups *)

\* the key of the last lookup is not in the fixture file
KeyAbsent ==
    \/ /\ fixtureCall.fn = "getTestData"
       /\ \/ testDataFile.kind # "json"
          \/ testDataFile.t # "object"
          \/ testDataFile.own[fixtureCall.key] = "absent"
    \/ /\ fixtureCall.fn = "getCredentials"
       /\ \/ credentialsFile.kind # "json"
          \/ credentialsFile.t # "object"
          \/ credentialsFile.users # "object"
          \/ credentialsFile.own[fixtureCall.key] = "absent"

\* C6: getTestData(key) and getCredentials(userType) throw a 'not found' error
\* for every key that is absent from the fixture file (also when the file
\* is missing or unparseable), and never return a value for such a key.
C6_AbsentKeyNotFound ==
    KeyAbsent => fixtureCall.out = Thrown("not found")

-----------------------------------------------------------------------------
(* The login-state detector, BasePage.isLoggedIn *)

QueryOutcomes == {"visible", "hidden", "error"}

\* what the page answers to each step of one check: the wait of line 98, the
\* 'text=Account' query, the account menu query, the click on the menu, the
\* log-out link query and the three login-form queries
Observations ==
    [wait : {"ok", "error"}, account : QueryOutcomes, menu : QueryOutcomes,
     click : {"ok", "error"}, logout : QueryOutcomes, form : [1..3 -> QueryOutcomes]]

\* line 104 without its second operand
urlSaysLoggedInWwwOnly(u) == Includes(u, <<"www.", "funda.nl">>)

\* line 104
urlSaysLoggedIn(u) ==
    \/ Includes(u, <<"www.", "funda.nl">>)
    \/ ~Includes(u, <<"login.", "funda.nl">>) /\ Includes(u, <<"funda.nl">>)

\* lines 152-174: the login-form queries run until one is visible; the result
\* is false either way
formErrors(o) ==
    IF \E i \in 1..3 : /\ o.form[i] = "error"
                       /\ \A j \in 1..(i - 1) : o.form[j] # "visible"
    THEN {"form"} ELSE {}

Checked(ret, raised, clicked) == [ret |-> ret, raised |-> raised, clicked |-> clicked]

\* lines 130-174, reached when the indicator of step 2 is not (seen as) visible
menuAndForm(o, raised) ==
    IF o.menu = "visible"
    THEN IF o.click = "error"
         THEN Checked("false", raised \cup {"click"} \cup formErrors(o), FALSE)
         ELSE IF o.logout = "visible"
              THEN Checked("true", raised, TRUE)
              ELSE Checked("false",
                           raised \cup (IF o.logout = "error" THEN {"logout"} ELSE {})
                                  \cup formErrors(o), TRUE)
    ELSE Checked("false",
                 raised \cup (IF o.menu = "error" THEN {"menu"} ELSE {}) \cup formErrors(o),
                 FALSE)

\* the body of the outer try block, lines 94-174
isLoggedInTry(u, o) ==
    IF o.wait = "error" THEN Checked("throw", {"wait"}, FALSE)
    ELSE IF urlSaysLoggedIn(u) THEN Checked("true", {}, FALSE)
    ELSE IF o.account = "visible" THEN Checked("true", {}, FALSE)
    ELSE menuAndForm(o, IF o.account = "error" THEN {"account"} ELSE {})

isLoggedInNoCatch(u, o) == isLoggedInTry(u, o)

\* lines 92-179, with the catch of line 175
isLoggedIn(u, o) ==
    LET r == isLoggedInTry(u, o)
    IN IF r.ret = "throw" THEN [r EXCEPT !.ret = "false"] ELSE r

NoCheck == Checked("none", {}, FALSE)

\* what a check had before it: the address; whether the opening wait
\* ended; whether the 'Account' element and the account menu button were
\* visible; whether the click on the menu went through and showed the
\* log-out link; whether some login-form field was visible
Seeing(u, o) ==
    [url |-> u,
     waited |-> o.wait = "ok",
     account |-> o.account = "visible",
     menu |-> o.menu = "visible",
     logout |-> o.click = "ok" /\ o.logout = "visible",
     loginForm |-> \E i \in 1..3 : o.form[i] = "visible"]

DetIdle ==
    /\ lastCheck = NoCheck
    /\ lastSeen = <<>>

IsLoggedIn ==
    \E o \in Observations :
        /\ lastCheck' = isLoggedIn(url, o)
        /\ lastSeen' = Seeing(url, o)
        /\ UNCHANGED pageVars
        /\ UNCHANGED detOthers

\* the browser moves to another address
PageNavigates ==
    /\ url' \in PageUrls \cup {Address(MainDomain, <<>>)}
    /\ url' # url
    /\ UNCHANGED <<page, headlessEnv, baseUrl>>
    /\ UNCHANGED <<lastCheck, lastSeen>>
    /\ UNCHANGED detOthers

DetNext == IsLoggedIn \/ PageNavigates

-----------------------------------------------------------------------------
(* Claims about isLoggedIn *)

CheckDone == lastCheck.ret # "none"

\* C7 as stated: isLoggedIn always returns a boolean and never throws, and any
\* error raised by a page query or by clicking the account menu during the
\* check results in the value false.
C7_AnyErrorGivesFalse ==
    CheckDone =>
        /\ lastCheck.ret \in {"true", "false"}
        /\ lastCheck.raised # {} => lastCheck.ret = "false"

\* C7 amended: isLoggedIn always returns a boolean and never throws; an error
\* raised by the initial wait, the account-menu query, the click on the menu,
\* the log-out link query or a login-form query results in false; an error of
\* the 'Account' indicator query is read as "not visible" and the check goes
\* on, so that the result is then true only through the account menu.
C7_ErrorsSwallowed ==
    CheckDone =>
        /\ lastCheck.ret \in {"true", "false"}
        /\ lastCheck.raised \cap {"wait", "menu", "click", "logout", "form"} # {}
              => lastCheck.ret = "false"
        /\ (lastCheck.raised = {"account"} /\ lastCheck.ret = "true") => lastCheck.clicked

\* the 'Account' query failed, and the log-out link in the menu gave true
C7_Witness ==
    /\ lastCheck.raised = {"account"}
    /\ lastCheck.ret = "true"
    /\ lastCheck.clicked
    /\ ~urlSaysLoggedIn(url)

\* (a) the address is on the main site
OnMainSite(u) ==
    \/ Occurs(<<"www.", "funda.nl">>, u)
    \/ Occurs(<<"funda.nl">>, u) /\ ~Occurs(<<"login.", "funda.nl">>, u)

\* (b) an 'Account' element is visible
AccountShown(seen) == seen.account

\* (c) the account menu button is visible and, after clicking it, the
\* log-out link is visible
LogoutInMenu(seen) == seen.menu /\ seen.logout

\* C24, as stated: isLoggedIn returns true if and only if (a) or (b) or (c)
\* holds; the menu is clicked only when (a) and (b) failed; the login-form
\* fields (d) do not enter the result.
C24_TrueIffIndicators ==
    CheckDone =>
        /\ lastCheck.ret = "true" <=>
              \/ OnMainSite(lastSeen.url)
              \/ AccountShown(lastSeen)
              \/ LogoutInMenu(lastSeen)
        /\ lastCheck.clicked => ~OnMainSite(lastSeen.url) /\ ~AccountShown(lastSeen)

\* C24, amended: when the wait of 1000 ms that opens the check fails,
\* isLoggedIn returns false whatever the address and the page show;
\* otherwise it returns true if and only if (a) or (b) or (c) holds, the
\* checks being made in that order, and the login-form fields (d) never
\* change the result.
C24_TrueIffIndicatorsAfterWait ==
    CheckDone =>
        /\ lastCheck.ret = "true" <=>
              /\ lastSeen.waited
              /\ \/ OnMainSite(lastSeen.url)
                 \/ AccountShown(lastSeen)
                 \/ LogoutInMenu(lastSeen)
        /\ lastCheck.ret \in {"true", "false"}
        /\ lastCheck.clicked =>
              /\ ~OnMainSite(lastSeen.url)
              /\ ~AccountShown(lastSeen)
              /\ lastSeen.menu

\* off the main site, without an 'Account' element, the log-out link was
\* found in the menu while a login-form field was visible
C24_Witness ==
    /\ CheckDone
    /\ lastCheck.ret = "true"
    /\ lastCheck.clicked
    /\ lastSeen.url = Address(AuthDomain, LoginPath)
    /\ lastSeen.loginForm

-----------------------------------------------------------------------------
(* The results page: list view, card view, validateListingInBothViews *)

Views == {"list", "card"}

FieldValues == {"x", "y"}

\* getResultDetails lines 288-293, without the element handle
Details == [title : FieldValues, price : FieldValues, location : FieldValues,
            listingId : FieldValues]

\* the item the list view shows at an index
ListItem == [title |-> "x", price |-> "x", location |-> "x", listingId |-> "x"]

NoValidate ==
    [index |-> 0, out |-> "none", views |-> <<>>, reads |-> <<>>,
     titleMatch |-> FALSE, priceMatch |-> FALSE, locationMatch |-> FALSE, idMatch |-> FALSE]

ViewIdle ==
    /\ view = "list"
    /\ resultItems = [v \in Views |-> <<>>]
    /\ valCall = NoValidate

\* a results page after a search: both views show the same number of items
ViewInit ==
    /\ view = "list"
    /\ \E count \in 0..MaxResults :
          resultItems \in [Views -> [1..count -> Details]]
    /\ \A i \in DOMAIN resultItems["list"] : resultItems["list"][i] = ListItem
    /\ valCall = NoValidate

\* switchToListView, switchToCardView: the button is clicked when it is
\* visible; otherwise the page is taken to be in that view already
switchToView(target, current, isVisible) == IF isVisible THEN target ELSE current

\* getResultDetails lines 258-268: the index is 0-based
getResultDetails(items, index) ==
    IF Len(items) = 0 THEN Thrown("No search results found")
    ELSE IF index >= Len(items) THEN Thrown("out of range")
    ELSE Returned(items[index + 1])

\* commands.js lines 122-148
ValidateListingInBothViews ==
    \E resultIndex \in 0..(MaxResults - 1), listVisible \in BOOLEAN, cardVisible \in BOOLEAN :
        LET v1 == switchToView("list", view, listVisible)
            listViewDetails == getResultDetails(resultItems[v1], resultIndex)
            v2 == switchToView("card", v1, cardVisible)
            cardViewDetails == getResultDetails(resultItems[v2], resultIndex)
        IN /\ IF listViewDetails.kind = "throw"
              THEN /\ view' = v1
                   /\ valCall' = [NoValidate EXCEPT !.index = resultIndex, !.out = "throw",
                                                    !.views = <<v1>>]
              ELSE /\ view' = v2
                   /\ valCall' =
                        IF cardViewDetails.kind = "throw"
                        THEN [NoValidate EXCEPT !.index = resultIndex, !.out = "throw",
                                                !.views = <<v1, v2>>]
                        ELSE LET l == listViewDetails.what
                                 c == cardViewDetails.what
                             IN [index |-> resultIndex, out |-> "ok", views |-> <<v1, v2>>,
                                 reads |-> <<l, c>>,
                                 titleMatch |-> l.title = c.title,
                                 priceMatch |-> l.price = c.price,
                                 locationMatch |-> l.location = c.location,
                                 idMatch |-> l.listingId = c.listingId]
           /\ UNCHANGED resultItems
           /\ UNCHANGED <<snapVars, mockVars, pageVars, hpcVars, fixVars, detVars, elVars,
                          lgVars, scVars, asyncVars>>

ViewNext == ValidateListingInBothViews

(* Claims about validateListingInBothViews *)

ValidateDone == valCall.out = "ok"

\* the item a view shows at the index of the last call
ItemIn(v) == resultItems[v][valCall.index + 1]

\* C26, as stated: validateListingInBothViews reads the listing at the
\* given index first with the page in list view and then with the page in
\* card view, and each of titleMatch, priceMatch, locationMatch, idMatch is
\* true exactly when the list-view item and the card-view item agree on
\* that field.
C26_ListReadAgainstCardRead ==
    ValidateDone =>
        /\ valCall.views = <<"list", "card">>
        /\ valCall.titleMatch <=> ItemIn("list").title = ItemIn("card").title
        /\ valCall.priceMatch <=> ItemIn("list").price = ItemIn("card").price
        /\ valCall.locationMatch <=> ItemIn("list").location = ItemIn("card").location
        /\ valCall.idMatch <=> ItemIn("list").listingId = ItemIn("card").listingId

-----------------------------------------------------------------------------
(* The login flow: commands.login, LoginPage.login, ensureLoggedIn *)

Range(f) == {f[i] : i \in DOMAIN f}

\* the site takes the session for authenticated when the context holds a
\* cookie it still accepts
Authenticated(jar) == "fresh" \in Range(jar)

\* context.addCookies: a cookie already held is replaced, a new one is added
AddCookies(jar, new) == jar \o SelectSeq(new, LAMBDA c : c \notin Range(jar))

\* what the page answers during the flow: the elements that appear only when
\* logged in (lines 109-113 and 139-141) are not shown to a session the site
\* does not take for authenticated; the login-form queries, which never
\* change the result, answer "hidden"
FlowObservations(jar) ==
    [wait : {"ok", "error"},
     account : IF Authenticated(jar) THEN QueryOutcomes ELSE {"hidden", "error"},
     menu : QueryOutcomes,
     click : {"ok", "error"},
     logout : IF Authenticated(jar) THEN QueryOutcomes ELSE {"hidden", "error"},
     form : {[i \in 1..3 |-> "hidden"]}]

\* the results isLoggedIn can give at address u with the cookies of jar
CheckResults(u, jar) == {isLoggedIn(u, o).ret : o \in FlowObservations(jar)}

Outcome(res, u) == [res |-> res, url |-> u]

\* handlePossibleCaptcha as its caller sees it: it throws (a challenge in a
\* non-interactive run, a timeout, a failed re-navigation) or returns; a
\* challenge that was solved may have moved the page, and the handler
\* re-navigates when the address does not fit the return path
HpcOutcomes(u, base, o) ==
    LET after == {u} \cup PageUrls
        target == navigateTarget(base, o.returnPath, o.useMainSite)
    IN {Outcome("throw", v) : v \in after} \cup
       UNION { IF needsRenavigation(v, o.returnPath, o.useMainSite)
               THEN {Outcome("ok", w) : w \in Landings(target)}
               ELSE {Outcome("ok", v)} : v \in after }

DefaultOptions == WithDefaults([returnPath |-> <<>>, useMainSite |-> FALSE])

LoginReturn == WithDefaults([returnPath |-> LoginPath, useMainSite |-> FALSE])

\* the positions of commands.login and LoginPage.login at which a
\* navigation to the login page starts (navigateToLogin, lines 366-370:
\* navigate, accept the cookie banner, which never throws, handle a
\* challenge), and the position of the challenge handling that follows
AfterGoto == [cmdGoto |-> "cmdHpc", lpGoto |-> "lpHpc", lpGotoAgain |-> "lpHpcAgain"]

\* the positions at which handlePossibleCaptcha runs, with the options it is
\* given and the position that follows: line 369 within navigateToLogin,
\* then lines 401, 410 and 436 of LoginPage.login
AfterHpc ==
    [cmdHpc |-> "lpCheck", lpHpc |-> "lpHpcReturn", lpHpcReturn |-> "lpButton",
     lpHpcAgain |-> "lpHpcAgainReturn", lpHpcAgainReturn |-> "lpSubmit",
     lpCaptcha |-> "lpVerify"]

HpcOptionsAt(pc) ==
    IF pc \in {"lpHpcReturn", "lpHpcAgainReturn", "lpCaptcha"} THEN LoginReturn
    ELSE DefaultOptions

\* what the catch of LoginPage.login, line 453, makes of an error
lpOnError(e) == "false"

\* an error at position pc: commands.login calls navigateToLogin (line 62)
\* outside any try block; LoginPage.login catches
LgThrown(pc) == IF pc \in {"cmdGoto", "cmdHpc"} THEN "throw" ELSE lpOnError(pc)

Entry(step, out) == [step |-> step, out |-> out]

NoSnapshot == [url |-> BlankUrl, cookies |-> <<>>, file |-> [kind |-> "missing", json |-> NoJson]]

FlowIdle ==
    /\ elPc = "idle"
    /\ elRet = "none"
    /\ elLog = <<>>
    /\ elAtCall = NoSnapshot
    /\ elCalls = 0
    /\ elPrevRet = "none"
    /\ lgPc = "idle"
    /\ lgRet = "none"
    /\ lgError = "none"
    /\ scKind = "none"
    /\ scPc = "idle"
    /\ scSteps = 0
    /\ scSaved = "none"
    /\ scRuns = 0

ElIdle ==
    /\ FlowIdle
    /\ ViewIdle

\* the snapshot files the flow is run with
FlowStateFiles ==
    { f \in StateFiles : CookiesOf(f).t = "array" => CookiesOf(f).n <= 1 }

FlowCredentialsFiles ==
    { f \in CredentialsFiles :
        \/ f.kind = "missing"
        \/ f.users = "object" /\ f.own["constructor"] = "absent"
                              /\ f.own["testUser"] \in {"absent", "object"} }

ElInit ==
    /\ ElIdle
    /\ url \in PageUrls
    /\ PageQuiet
    /\ stateFile \in FlowStateFiles
    /\ contextCookies \in {<<>>, <<"stale">>, <<"fresh">>}
    /\ validCall = NoCall
    /\ credentialsFile \in FlowCredentialsFiles
    /\ testDataFile = [kind |-> "missing", t |-> "undefined", own |-> NoOwn(DataTypes)]
    /\ fixtureCall = NoFixtureCall

\* a call of ensureLoggedIn(page), with the page at address u and the
\* context holding the cookies of jar
ElEnter(u, jar) ==
    /\ elPc \in {"idle", "done"}
    /\ elCalls < MaxCalls
    /\ elPc' = "check"
    /\ elPrevRet' = elRet
    /\ elRet' = "none"
    /\ elLog' = <<>>
    /\ elAtCall' = [url |-> u, cookies |-> jar, file |-> stateFile]
    /\ elCalls' = elCalls + 1
    /\ UNCHANGED <<stateFile, lgVars>>

ElCall ==
    /\ ElEnter(url, contextCookies)
    /\ UNCHANGED <<url, contextCookies>>
    /\ UNCHANGED elOthers

\* lines 23-28: where the first check leads
afterFirstCheckIgnored(r) == "snapshot"

afterFirstCheck(r) == IF r = "true" THEN "done" ELSE "snapshot"

\* lines 21-26
ElCheck ==
    /\ elPc = "check"
    /\ \E r \in CheckResults(url, contextCookies) :
        /\ elLog' = Append(elLog, Entry("check", r))
        /\ elPc' = afterFirstCheck(r)
        /\ elRet' = IF elPc' = "done" THEN "true" ELSE "none"
        /\ UNCHANGED <<elAtCall, elCalls, elPrevRet>>
        /\ UNCHANGED <<url, contextCookies, stateFile, lgVars>>
        /\ UNCHANGED elOthers

\* a test that takes an array of cookies only
snapshotUsableArraysOnly(file) ==
    /\ Truthy(file.json)
    /\ file.json.cookies.t = "array"
    /\ file.json.cookies.n > 0

\* line 40 without its last operand
snapshotUsableAnyLength(file) ==
    /\ Truthy(file.json)
    /\ Truthy(file.json.cookies)

\* line 40: state && state.cookies && state.cookies.length > 0
snapshotUsable(file) ==
    /\ Truthy(file.json)
    /\ Truthy(file.json.cookies)
    /\ LengthPositive(file.json.cookies)

\* lines 33-40: fs.access, fs.readFile and JSON.parse throw into the catch of
\* line 59; a snapshot without cookies is passed over
ElSnapshot ==
    /\ elPc = "snapshot"
    /\ IF stateFile.kind # "json"
       THEN /\ elLog' = Append(elLog, Entry("snapshot", "throw"))
            /\ elPc' = "credentials"
       ELSE IF snapshotUsable(stateFile)
            THEN /\ elLog' = Append(elLog, Entry("snapshot", "ok"))
                 /\ elPc' = "cookies"
            ELSE /\ elLog' = Append(elLog, Entry("snapshot", "skip"))
                 /\ elPc' = "credentials"
    /\ UNCHANGED <<elRet, elAtCall, elCalls, elPrevRet>>
    /\ UNCHANGED <<url, contextCookies, stateFile, lgVars>>
    /\ UNCHANGED elOthers

\* line 44: addCookies rejects what is not an array of well-formed cookies
ElAddCookies ==
    /\ elPc = "cookies"
    /\ \E ok \in BOOLEAN :
        LET c == stateFile.json.cookies
            accepted == ok /\ c.t = "array" /\ "malformed" \notin Range(c.items)
        IN /\ IF accepted
              THEN /\ contextCookies' = AddCookies(contextCookies, c.items)
                   /\ elLog' = Append(elLog, Entry("addCookies", "ok"))
                   /\ elPc' = "goto"
              ELSE /\ contextCookies' = contextCookies
                   /\ elLog' = Append(elLog, Entry("addCookies", "throw"))
                   /\ elPc' = "credentials"
           /\ UNCHANGED <<elRet, elAtCall, elCalls, elPrevRet>>
           /\ UNCHANGED <<url, stateFile, lgVars>>
           /\ UNCHANGED elOthers

\* line 47: page.goto('https://www.funda.nl')
ElGoto ==
    /\ elPc = "goto"
    /\ \E ok \in BOOLEAN :
        /\ IF ok
           THEN /\ url' \in Landings(Address(MainDomain, <<>>))
                /\ elLog' = Append(elLog, Entry("goto", "ok"))
                /\ elPc' = "recheck"
           ELSE /\ url' = url
                /\ elLog' = Append(elLog, Entry("goto", "throw"))
                /\ elPc' = "credentials"
        /\ UNCHANGED <<elRet, elAtCall, elCalls, elPrevRet>>
        /\ UNCHANGED <<contextCookies, stateFile, lgVars>>
        /\ UNCHANGED elOthers

\* lines 50-57
ElRecheck ==
    /\ elPc = "recheck"
    /\ \E r \in CheckResults(url, contextCookies) :
        /\ elLog' = Append(elLog, Entry("recheck", r))
        /\ elPc' = IF r = "true" THEN "done" ELSE "credentials"
        /\ elRet' = IF r = "true" THEN "true" ELSE "none"
        /\ UNCHANGED <<elAtCall, elCalls, elPrevRet>>
        /\ UNCHANGED <<url, contextCookies, stateFile, lgVars>>
        /\ UNCHANGED elOthers

\* lines 78-81: what an error of the manual login turns into
elOnLoginErrorRethrown(e) == "throw"

elOnLoginError(e) == "false"

\* line 66: getCredentials(), for the default user type
ElCredentials ==
    LET c == getCredentials(credentialsFile, "testUser")
    IN /\ elPc = "credentials"
       /\ IF c.kind = "throw"
          THEN /\ elLog' = Append(elLog, Entry("credentials", "throw"))
               /\ elPc' = "done"
               /\ elRet' = elOnLoginError(c.what)
               /\ UNCHANGED lgVars
          ELSE /\ elLog' = Append(elLog, Entry("credentials", "ok"))
               /\ elPc' = "login"
               /\ elRet' = "none"
               /\ lgPc' = "cmdGoto"
               /\ lgRet' = "none"
               /\ lgError' = "none"
       /\ UNCHANGED <<elAtCall, elCalls, elPrevRet>>
       /\ UNCHANGED <<url, contextCookies, stateFile>>
       /\ UNCHANGED elOthers

\* BasePage.navigate to account/login, lines 36-48
LgGoto ==
    /\ lgPc \in DOMAIN AfterGoto
    /\ \E ok \in BOOLEAN :
        /\ IF ok
           THEN /\ url' \in Landings(navigateTarget(AuthDomain, LoginPath, FALSE))
                /\ lgPc' = AfterGoto[lgPc]
                /\ lgRet' = "none"
           ELSE /\ url' = url
                /\ lgPc' = "finished"
                /\ lgRet' = LgThrown(lgPc)
        /\ lgError' = IF ok THEN lgError ELSE "goto"
        /\ UNCHANGED <<contextCookies, stateFile, elVars>>
        /\ UNCHANGED elOthers

\* handlePossibleCaptcha, as called at lines 369, 401, 410 and 436
LgHpc ==
    /\ lgPc \in DOMAIN AfterHpc
    /\ \E x \in HpcOutcomes(url, AuthDomain, HpcOptionsAt(lgPc)) :
        /\ url' = x.url
        /\ lgPc' = IF x.res = "throw" THEN "finished" ELSE AfterHpc[lgPc]
        /\ lgRet' = IF x.res = "throw" THEN LgThrown(lgPc) ELSE "none"
        /\ lgError' = IF x.res = "throw" THEN "challenge" ELSE lgError
        /\ UNCHANGED <<contextCookies, stateFile, elVars>>
        /\ UNCHANGED elOthers

\* LoginPage.login lines 390-394
LgAlreadyLoggedIn ==
    /\ lgPc = "lpCheck"
    /\ \E r \in CheckResults(url, contextCookies) :
        /\ lgPc' = IF r = "true" THEN "finished" ELSE "lpGoto"
        /\ lgRet' = IF r = "true" THEN "true" ELSE "none"
        /\ UNCHANGED <<lgError, url, contextCookies, stateFile, elVars>>
        /\ UNCHANGED elOthers

\* LoginPage.login lines 404-411: without a visible login button the
\* navigation is done once more
LgButton ==
    /\ lgPc = "lpButton"
    /\ \E isOnLoginForm \in BOOLEAN :
        /\ lgPc' = IF isOnLoginForm THEN "lpSubmit" ELSE "lpGotoAgain"
        /\ UNCHANGED <<lgRet, lgError, url, contextCookies, stateFile, elVars>>
        /\ UNCHANGED elOthers

\* LoginPage.login lines 413-433: fill the form and click; a missing field or
\* button throws; the site accepts the credentials or not, and on success
\* sets its session cookie and may redirect to the main site
LgSubmit ==
    /\ lgPc = "lpSubmit"
    /\ \E formOk \in BOOLEAN, accepted \in BOOLEAN, landing \in {url, Address(MainDomain, <<>>)} :
        /\ IF ~formOk
           THEN /\ lgPc' = "finished"
                /\ lgRet' = lpOnError("form")
                /\ UNCHANGED <<url, contextCookies>>
           ELSE /\ lgPc' = "lpCaptcha"
                /\ lgRet' = "none"
                /\ contextCookies' = IF accepted THEN AddCookies(contextCookies, <<"fresh">>)
                                     ELSE contextCookies
                /\ url' = IF accepted THEN landing ELSE url
        /\ lgError' = IF formOk THEN lgError ELSE "form"
        /\ UNCHANGED <<stateFile, elVars>>
        /\ UNCHANGED elOthers

\* LoginPage.login lines 438-452: the wait for a navigation is allowed to
\* fail; the result is the last check
LgVerify ==
    /\ lgPc = "lpVerify"
    /\ \E r \in CheckResults(url, contextCookies) :
        /\ lgPc' = "finished"
        /\ lgRet' = r
        /\ UNCHANGED <<lgError, url, contextCookies, stateFile, elVars>>
        /\ UNCHANGED elOthers

\* lines 69-81
ElLoginDone ==
    /\ elPc = "login"
    /\ lgPc = "finished"
    /\ elLog' = Append(elLog, Entry("login", lgRet))
    /\ elRet' = IF lgRet = "throw" THEN elOnLoginError(lgRet) ELSE lgRet
    /\ elPc' = "done"
    /\ lgPc' = "idle"
    /\ lgRet' = "none"
    /\ UNCHANGED lgError
    /\ UNCHANGED <<elAtCall, elCalls, elPrevRet>>
    /\ UNCHANGED <<url, contextCookies, stateFile>>
    /\ UNCHANGED elOthers

ElNext ==
    \/ ElCall
    \/ ElCheck
    \/ ElSnapshot
    \/ ElAddCookies
    \/ ElGoto
    \/ ElRecheck
    \/ ElCredentials
    \/ LgGoto
    \/ LgHpc
    \/ LgAlreadyLoggedIn
    \/ LgButton
    \/ LgSubmit
    \/ LgVerify
    \/ ElLoginDone

(* Claims about the login flow *)

ElDone == elPc = "done"

\* a stage that failed: it threw, or the login call reported failure
Failed(e) == e.out = "throw" \/ (e.step = "login" /\ e.out = "false")

\* an isLoggedIn check or the login call that reported success
Succeeded(e) == e.step \in {"check", "recheck", "login"} /\ e.out = "true"

CookieStage == {"snapshot", "addCookies", "goto"}
FormStage == {"credentials", "login"}

\* C8, as stated: ensureLoggedIn never throws; after a failure in any stage
\* it returns false; it returns true only if some isLoggedIn check or the
\* login call reported success.
C8_AnyFailureGivesFalse ==
    ElDone =>
        /\ elRet \in {"true", "false"}
        /\ (\E i \in DOMAIN elLog : Failed(elLog[i])) => elRet = "false"
        /\ elRet = "true" => \E i \in DOMAIN elLog : Succeeded(elLog[i])

\* C8, amended: ensureLoggedIn never throws and returns a boolean; a failure
\* in the manual-login stage (missing credentials, the login call throwing
\* or reporting failure) gives false; a failure in the cookie stage
\* (snapshot, addCookies, navigation) is passed over and the manual login
\* is attempted next, whose result is returned; the result is true exactly
\* when the last check or the login call reported success.
C8_FailuresContained ==
    ElDone =>
        /\ elRet \in {"true", "false"}
        /\ (\E i \in DOMAIN elLog : elLog[i].step \in FormStage /\ Failed(elLog[i]))
                => elRet = "false"
        /\ \A i \in DOMAIN elLog :
              (elLog[i].step \in CookieStage /\ elLog[i].out = "throw")
                => (i < Len(elLog) /\ elLog[i + 1].step = "credentials")
        /\ elRet = "true" <=> Succeeded(Last(elLog))

\* a call whose snapshot could not be read and whose manual login succeeded
C8_Witness ==
    /\ ElDone
    /\ Len(elLog) = 4
    /\ elLog[2] = Entry("snapshot", "throw")
    /\ elLog[4] = Entry("login", "true")
    /\ elRet = "true"

C10_StaleCookiesRejected ==
    (ElDone /\ ~Authenticated(contextCookies)) =>
        \A i \in DOMAIN elLog :
            elLog[i].step = "recheck" =>
                /\ elLog[i].out = "false"
                /\ i < Len(elLog)
                /\ elLog[i + 1].step = "credentials"

StageRank ==
    [check |-> 1, snapshot |-> 2, addCookies |-> 3, goto |-> 4, recheck |-> 5,
     credentials |-> 6, login |-> 7]

\* how the cookie stage can end without a logged-in session
CookieStagePassed(e) ==
    \/ e.step = "snapshot" /\ e.out \in {"skip", "throw"}
    \/ e.step \in {"addCookies", "goto"} /\ e.out = "throw"
    \/ e.step = "recheck" /\ e.out = "false"

\* C21: ensureLoggedIn runs its stages in the order check, cookies, form:
\* the stages of a call appear in increasing order, so none runs twice;
\* cookies are added only after the first check returned false and only
\* from a snapshot that holds at least one cookie; the form stage starts
\* only after the first check returned false and the cookie stage was
\* skipped, failed, or ended with a recheck that returned false.
C21_StagesInOrder ==
    /\ \A i, j \in DOMAIN elLog :
          i < j => StageRank[elLog[i].step] < StageRank[elLog[j].step]
    /\ \A i \in DOMAIN elLog :
          /\ i > 1 => elLog[1] = Entry("check", "false")
          /\ elLog[i] = Entry("addCookies", "ok") =>
                /\ elAtCall.file.kind = "json"
                /\ elAtCall.file.json.cookies.t = "array"
                /\ elAtCall.file.json.cookies.n >= 1
                /\ elLog[i - 1] = Entry("snapshot", "ok")
          /\ elLog[i].step = "credentials" => CookieStagePassed(elLog[i - 1])
          /\ elLog[i].step = "login" => elLog[i - 1] = Entry("credentials", "ok")
    /\ elPc \notin {"idle", "check"} => Len(elLog) > 0
    /\ Len(elLog) > 0 => elLog[1].step = "check"

\* a call in which every stage ran: the cookies of the snapshot were added,
\* the recheck returned false and the form logged in
C21_Witness ==
    /\ ElDone
    /\ Len(elLog) = 7
    /\ elLog[3] = Entry("addCookies", "ok")
    /\ elLog[5] = Entry("recheck", "false")
    /\ elLog[7] = Entry("login", "true")

LgFinished == lgPc = "finished"

\* C22, as stated: commands.login always resolves to a boolean and never
\* rejects; every failure during the attempt (navigation to the login page,
\* challenge handling, form filling, submit) gives false.
C22_LoginAlwaysBoolean ==
    LgFinished =>
        /\ lgRet \in {"true", "false"}
        /\ lgError # "none" => lgRet = "false"

\* isStateFileValid would return a truthy value for the snapshot file of
\* the call
ValidAtCall == isStateFileValid(elAtCall.file) = "true"

\* C29, as stated: a call that comes to the snapshot adds the stored
\* cookies to the browser context if and only if isStateFileValid returns a
\* truthy value for the same file.
C29_AddsIffValid ==
    (ElDone /\ \E i \in DOMAIN elLog : elLog[i].step = "snapshot") =>
        ((\E i \in DOMAIN elLog : elLog[i] = Entry("addCookies", "ok")) <=> ValidAtCall)

\* C29, amended: the test ensureLoggedIn makes on the snapshot agrees with
\* isStateFileValid: in every call that comes to the snapshot, the stored
\* cookies are handed to addCookies if and only if isStateFileValid
\* returns a truthy value for the same file; a missing or unreadable
\* file, invalid JSON, and missing or empty cookies are all passed over.
\* Cookies are added only by such a call of addCookies, which may reject
\* what it is handed.
C29_InlineTestAgrees ==
    /\ (\E i \in DOMAIN elLog : elLog[i] = Entry("addCookies", "ok")) => ValidAtCall
    /\ \A i \in DOMAIN elLog :
          elLog[i].step = "snapshot" =>
              /\ elLog[i].out = "ok" <=> ValidAtCall
              /\ i < Len(elLog) => (elLog[i + 1].step = "addCookies" <=> ValidAtCall)
              /\ elAtCall.file.kind # "json" => elLog[i].out = "throw"
              /\ (elAtCall.file.kind = "json" /\ ~ValidAtCall) => elLog[i].out = "skip"

\* a snapshot whose `cookies` is a string that is not empty: both tests
\* take it, and addCookies, called with it, rejected it
C29_Witness ==
    /\ Len(elLog) >= 3
    /\ elLog[2] = Entry("snapshot", "ok")
    /\ elLog[3] = Entry("addCookies", "throw")
    /\ CookiesOf(elAtCall.file).t = "string"
    /\ ValidAtCall

-----------------------------------------------------------------------------
(* The scenarios: those guarded by the beforeEach hook, and the login test *)

\* state a scenario leaves alone apart from the page, the context, the
\* snapshot file and the login flow
scOthers == <<validCall, mockVars, page, headlessEnv, baseUrl, hpcVars, fixVars, detVars,
             viewVars, asyncVars>>

ScOver == scPc \in {"idle", "skipped", "passed", "failed"}

\* each scenario gets a new page in a new context; the context starts empty
\* or with the cookies of the storage-state file
StartCookies(file) ==
    {<<>>} \cup
    (IF HasCookiesArray(file) /\ "malformed" \notin Range(CookiesOf(file).items)
     THEN {CookiesOf(file).items} ELSE {})

\* a variant of the hook without the skip
hookVerdictNoSkip(loggedIn) == IF loggedIn = "throw" THEN "failed" ELSE "body"

\* if (!loggedIn) { test.skip(); }: what follows the hook
hookVerdict(loggedIn) ==
    IF loggedIn = "throw" THEN "failed"
    ELSE IF loggedIn = "true" THEN "body"
    ELSE "skipped"

\* test.beforeEach: const loggedIn = await ensureLoggedIn(page)
ScBeforeEach ==
    /\ ScOver
    /\ scRuns < MaxCalls
    /\ \E jar \in StartCookies(stateFile) :
        /\ url' = BlankUrl
        /\ contextCookies' = jar
        /\ ElEnter(BlankUrl, jar)
    /\ scKind' = "guarded"
    /\ scPc' = "hook"
    /\ scSteps' = 0
    /\ scSaved' = "none"
    /\ scRuns' = scRuns + 1
    /\ UNCHANGED scOthers

ScHookReturn ==
    /\ scPc = "hook"
    /\ elPc = "done"
    /\ scPc' = hookVerdict(elRet)
    /\ UNCHANGED <<scKind, scSteps, scSaved, scRuns>>
    /\ UNCHANGED <<url, contextCookies, stateFile, elVars, lgVars>>
    /\ UNCHANGED scOthers

\* one step of the scenario body; a failing step or expectation ends it
ScBodyStep ==
    /\ scPc = "body"
    /\ scSteps < MaxSteps
    /\ \E ok \in BOOLEAN :
        /\ scSteps' = scSteps + 1
        /\ scPc' = IF ok THEN "body" ELSE "failed"
    /\ UNCHANGED <<scKind, scSaved, scRuns>>
    /\ UNCHANGED <<url, contextCookies, stateFile, elVars, lgVars>>
    /\ UNCHANGED scOthers

ScBodyEnd ==
    /\ scPc = "body"
    /\ scPc' = "passed"
    /\ UNCHANGED <<scKind, scSteps, scSaved, scRuns>>
    /\ UNCHANGED <<url, contextCookies, stateFile, elVars, lgVars>>
    /\ UNCHANGED scOthers

\* the test 'Login with credentials securely': getCredentials('testUser'),
\* then login(page, credentials)
T1Start ==
    /\ ScOver
    /\ scRuns < MaxCalls
    /\ elPc \in {"idle", "done"}
    /\ \E jar \in StartCookies(stateFile) :
        /\ url' = BlankUrl
        /\ contextCookies' = jar
    /\ scKind' = "loginTest"
    /\ scSteps' = 0
    /\ scSaved' = "none"
    /\ scRuns' = scRuns + 1
    /\ IF getCredentials(credentialsFile, "testUser").kind = "throw"
       THEN /\ scPc' = "failed"
            /\ lgPc' = "idle"
       ELSE /\ scPc' = "login"
            /\ lgPc' = "cmdGoto"
    /\ lgRet' = "none"
    /\ lgError' = "none"
    /\ UNCHANGED <<stateFile, elVars>>
    /\ UNCHANGED scOthers

\* a variant that goes on to save whatever the login reported
afterLoginAlwaysSave(loginResult) == "verify"

\* expect(loginResult).toBeTruthy(); a login that rejects ends the test
afterLogin(loginResult) == IF loginResult = "true" THEN "verify" ELSE "failed"

T1LoginDone ==
    /\ scPc = "login"
    /\ lgPc = "finished"
    /\ scPc' = afterLogin(lgRet)
    /\ lgPc' = "idle"
    /\ UNCHANGED <<lgRet, lgError>>
    /\ UNCHANGED <<scKind, scSteps, scSaved, scRuns>>
    /\ UNCHANGED <<url, contextCookies, stateFile, elVars>>
    /\ UNCHANGED scOthers

\* url.includes('login')
UrlHasLogin(u) == \E i \in DOMAIN u : u[i] \in {"login", "login."}

\* the extra verification: off the login site nothing more is looked at,
\* otherwise the account menu is clicked and the log-out link is expected
T1Verify ==
    /\ scPc = "verify"
    /\ \E found \in BOOLEAN :
        LET isRedirectedToMainSite == ~UrlHasLogin(url)
        IN scPc' = IF isRedirectedToMainSite \/ found THEN "save" ELSE "failed"
    /\ UNCHANGED <<scKind, scSteps, scSaved, scRuns>>
    /\ UNCHANGED <<url, contextCookies, stateFile, elVars, lgVars>>
    /\ UNCHANGED scOthers

\* saveLoginState(context, stateFilePath), which is saveBrowserState
T1Save ==
    /\ scPc = "save"
    /\ \E ok \in BOOLEAN :
        /\ stateFile' = savedState(ok, stateFile, contextCookies)
        /\ scSaved' = IF ok THEN "written" ELSE "failed"
    /\ scPc' = "passed"
    /\ UNCHANGED <<scKind, scSteps, scRuns>>
    /\ UNCHANGED <<url, contextCookies, elVars, lgVars>>
    /\ UNCHANGED scOthers

ScNext ==
    \/ ScBeforeEach
    \/ ScHookReturn
    \/ ScBodyStep
    \/ ScBodyEnd
    \/ T1Start
    \/ T1LoginDone
    \/ T1Verify
    \/ T1Save
    \/ ElCheck
    \/ ElSnapshot
    \/ ElAddCookies
    \/ ElGoto
    \/ ElRecheck
    \/ ElCredentials
    \/ ElLoginDone
    \/ LgGoto
    \/ LgHpc
    \/ LgAlreadyLoggedIn
    \/ LgButton
    \/ LgSubmit
    \/ LgVerify

(* Claims about the scenarios *)

\* C14: in a scenario guarded by the hook, the body runs only if
\* ensureLoggedIn returned true; when it returned false the scenario is
\* skipped, not failed, and no step of its body is executed.
C14_BodyOnlyWhenLoggedIn ==
    scKind = "guarded" =>
        /\ (scPc \in {"body", "passed", "failed"} \/ scSteps > 0)
              => (elPc = "done" /\ elRet = "true")
        /\ (elPc = "done" /\ elRet = "false" /\ scPc # "hook")
              => (scPc = "skipped" /\ scSteps = 0)
        /\ scPc = "skipped" => (elPc = "done" /\ elRet = "false" /\ scSteps = 0)

\* a scenario skipped because the manual login failed, after one that ran
C14_Witness ==
    /\ scKind = "guarded"
    /\ scRuns = 2
    /\ scPc = "skipped"
    /\ elPrevRet = "true"
    /\ Last(elLog) = Entry("login", "false")

\* C15: an error raised by handlePossibleCaptcha on the login path is not
\* turned into a boolean by LoginPage.login, commands.login or
\* ensureLoggedIn: the login call rejects, ensureLoggedIn rejects, and the
\* scenario is aborted with the error.
C15_ChallengeErrorAborts ==
    /\ (lgPc = "finished" /\ lgError = "challenge") => lgRet = "throw"
    /\ (elPc = "done" /\ elLog # <<>> /\ Last(elLog).step = "login" /\ lgError = "challenge")
          => /\ elRet = "throw"
             /\ (scKind = "guarded" /\ scPc # "hook") => scPc = "failed"

\* C18: the snapshot file is written only after a login that reported
\* success: saveLoginState is never called after a login that returned
\* false or raised, so a failed login never overwrites the snapshot.
C18_SavedOnlyAfterSuccess ==
    /\ []((scPc = "save" \/ scSaved # "none") => (scKind = "loginTest" /\ lgRet = "true"))
    /\ [][stateFile' # stateFile => (scPc = "save" /\ lgRet = "true")]_vars

\* the login test logged in through the form and replaced a snapshot that
\* held a stale cookie
C18_Witness ==
    /\ scSaved = "written"
    /\ lgRet = "true"
    /\ Authenticated(contextCookies)
    /\ stateFile = SnapshotOf(contextCookies)
    /\ "stale" \in Range(contextCookies)

\* C19: after every successful interactive login, also one that
\* ensureLoggedIn performed through the login form, the snapshot file is
\* written, so that a later run finds a non-empty cookie snapshot on disk.
C19_SnapshotWrittenAfterLogin ==
    /\ (elPc = "done" /\ elLog # <<>> /\ Last(elLog) = Entry("login", "true"))
          => (snapshotUsable(stateFile) /\ stateFile = SnapshotOf(contextCookies))
    /\ (scKind = "loginTest" /\ scPc = "passed")
          => (snapshotUsable(stateFile) /\ stateFile = SnapshotOf(contextCookies))

-----------------------------------------------------------------------------
(* Specifications *)

InitSnapshot ==
    /\ SnapInit
    /\ MockIdle
    /\ PageIdle
    /\ HpcIdle
    /\ FixIdle
    /\ DetIdle
    /\ ElIdle
    /\ FixIdle

SpecSnapshot == InitSnapshot /\ [][SnapNext]_vars

InitMock ==
    /\ MockInit
    /\ SnapIdle
    /\ PageIdle
    /\ HpcIdle
    /\ FixIdle
    /\ DetIdle
    /\ ElIdle
    /\ FixIdle

SpecMock == InitMock /\ [][MockNext]_vars

InitCaptcha ==
    /\ HpcIdle
    /\ PageInit
    /\ SnapIdle
    /\ MockIdle
    /\ FixIdle
    /\ DetIdle
    /\ ElIdle

SpecCaptcha == InitCaptcha /\ [][HpcNext]_vars

\* every await of the handler ends, by its timeout at the latest, so a
\* handler that can take a step takes one
SpecCaptchaFair == InitCaptcha /\ [][HpcNext]_vars /\ WF_vars(HpcStep)

InitFixture ==
    /\ FixInit
    /\ SnapIdle
    /\ MockIdle
    /\ PageIdle
    /\ HpcIdle
    /\ DetIdle
    /\ ElIdle

SpecFixture == InitFixture /\ [][FixNext]_vars

InitDetector ==
    /\ DetIdle
    /\ url \in PageUrls
    /\ PageQuiet
    /\ SnapIdle
    /\ MockIdle
    /\ HpcIdle
    /\ FixIdle
    /\ ElIdle

SpecDetector == InitDetector /\ [][DetNext]_vars

InitLogin ==
    /\ ElInit
    /\ MockIdle
    /\ HpcIdle
    /\ DetIdle

SpecLogin == InitLogin /\ [][ElNext]_vars

InitScenario ==
    /\ ElIdle
    /\ url = BlankUrl
    /\ PageQuiet
    /\ stateFile \in FlowStateFiles
    /\ contextCookies = <<>>
    /\ validCall = NoCall
    /\ credentialsFile \in FlowCredentialsFiles
    /\ testDataFile = [kind |-> "missing", t |-> "undefined", own |-> NoOwn(DataTypes)]
    /\ fixtureCall = NoFixtureCall
    /\ MockIdle
    /\ HpcIdle
    /\ DetIdle

SpecScenario == InitScenario /\ [][ScNext]_vars

InitViews ==
    /\ ViewInit
    /\ SnapIdle
    /\ MockIdle
    /\ PageIdle
    /\ HpcIdle
    /\ FixIdle
    /\ DetIdle
    /\ FlowIdle

SpecViews == InitViews /\ [][ViewNext]_vars

SpecMockAsync == InitMock /\ [][AsyncNext]_vars

=============================================================================
